---- MODULE Spec2Model ----
(***************************************************************************)
(* process-sync: SharedMemoryObject, SharedMutex and SharedCondvar, thin   *)
(* wrappers over mmap(MAP_SHARED|MAP_ANONYMOUS) and process-shared pthread *)
(* mutexes and condition variables, used by processes related by fork().   *)
(*                                                                         *)
(* A process is identified by its pid.  The kernel hands out pids from a   *)
(* finite pool and may hand the pid of a reaped process to a new one, so   *)
(* the slots 1..MaxProcs are the pids.  Process 1 is the process that      *)
(* called SharedMutex::new(), SharedCondvar::new() and                     *)
(* SharedMemoryObject::new(v) before any fork.                             *)
(*                                                                         *)
(* The pthread calls behave as POSIX specifies them: the mutex is a plain  *)
(* lock word, pthread_cond_wait releases the mutex and queues the caller   *)
(* atomically, may wake up spuriously, and returns with the mutex held;    *)
(* pthread_cond_signal picks any one waiter.  A destroy of a structure in  *)
(* use and any use of a destroyed structure are undefined.  The mutex has  *)
(* the default type, which on Linux keeps neither an owner nor a count.    *)
(*                                                                         *)
(* Five specifications share the actions: Spec (every process calls the    *)
(* mutex and the condvar freely, forks, drops its handles and exits),      *)
(* FairScript (the programs of the tests and doc examples, under fair      *)
(* scheduling), SpecShm (a SharedMemoryObject holding a value), SpecOs     *)
(* (creation and scope exit under every answer the OS can give) and        *)
(* SpecRejected (calls on the mutex and the condvar that the OS rejects).  *)
(***************************************************************************)
EXTENDS Integers, Sequences, FiniteSets, TLC

MaxProcs == 3
MaxVal == 1

Procs == 1..MaxProcs
Values == 0..MaxVal
SyncObjs == {"mutex", "condvar"}
Objs == SyncObjs \cup {"data"}

VARIABLES
  pc,            \* pc[p]: where process p is
  handle,        \* handle[p][o]: p's handle to o: its state and its owner_pid field
  ostate,        \* ostate[o]: the pthread structure in o's shared region
  locked,        \* the lock word of the pthread mutex
  waitq,         \* processes blocked in pthread_cond_wait, in order of arrival
  mem,           \* the value stored in the data region
  seen,          \* seen[p]: what p's last get() returned
  ub,            \* an operation with undefined behaviour has been performed
  sinceNotify,   \* history: waiters for which a notify was called since they began to wait
  unnotified,    \* history: processes that left the wait queue with no notify since they began to wait
  destroys,      \* history: destroys[o]: OS-level destroy calls made on o
  foreignDestroy,\* history: sync objects destroyed by a process other than the creator
  creatorGone,   \* history: the creating process has been reaped
  scenario,      \* the program being run, "free" when every process acts freely
  script,        \* script[p]: the calls p's program has still to make
  wrote,         \* history: the value last stored in the data region, and who read it since
  oscalls,       \* history: oscalls[p]: the OS calls of p's latest library call, with what each returned
  last           \* history: last[p]: p's latest library call and how it ended

vars == <<pc, handle, ostate, locked, waitq, mem, seen, ub, sinceNotify,
          unnotified, destroys, foreignDestroy, creatorGone, scenario, script,
          wrote, oscalls, last>>

NoHandle == [st |-> "none", owner_pid |-> 0]

\* No library call has ended in the process yet
NoCall == [op |-> "none", obj |-> "none", arg |-> 0, res |-> "none"]

\* src/util.rs getpid: the identity the kernel gives the calling process
getpid(p) == p

\* The process in slot p is the one that created the objects
IsCreator(p) == p = 1 /\ ~creatorGone

Live(p, o) == handle[p][o].st = "live"

\* The processes that own the mutex: those lock() or wait() has returned to,
\* one of which may be inside a second lock()
Holders == {p \in Procs : pc[p] \in {"holding", "relocking"}}

InSeq(s, x) == \E i \in 1..Len(s) : s[i] = x

RemoveAt(s, i) == [j \in 1..(Len(s) - 1) |-> IF j < i THEN s[j] ELSE s[j + 1]]

\* The processes that are using the pthread structure of o right now
InUse(o) ==
  IF o = "mutex"
  THEN locked \/ \E p \in Procs : pc[p] \in {"locking", "holding", "relocking", "waiting", "reacquiring"}
  ELSE waitq # <<>>

\* Every operation so far had defined behaviour.  Once a call with undefined
\* behaviour has been made (a destroy of a structure in use, any use of a
\* destroyed structure) nothing is known of what follows, and the model stops
Defined == ~ub

Range(s) == {s[i] : i \in 1..Len(s)}

(***************************************************************************)
(* SharedMutex                                                             *)
(***************************************************************************)

\* SharedMutex::lock, the call: pthread_mutex_lock is entered and the caller
\* is suspended in it until the lock word is free
LockCall(p) ==
  /\ Defined
  /\ pc[p] = "idle"
  /\ Live(p, "mutex")
  /\ pc' = [pc EXCEPT ![p] = "locking"]
  /\ ub' = (ub \/ ostate["mutex"] # "init")
  /\ UNCHANGED <<handle, ostate, locked, waitq, mem, seen, sinceNotify, unnotified,
                 destroys, foreignDestroy, creatorGone>>

\* SharedMutex::lock called by the process that holds the mutex: the mutex
\* has the default attributes but for PTHREAD_PROCESS_SHARED, it keeps no
\* owner and no count, so pthread_mutex_lock is entered as by anyone else
Relock(p) ==
  /\ Defined
  /\ pc[p] = "holding"
  /\ Live(p, "mutex")
  /\ pc' = [pc EXCEPT ![p] = "relocking"]
  /\ ub' = (ub \/ ostate["mutex"] # "init")
  /\ UNCHANGED <<handle, ostate, locked, waitq, mem, seen, sinceNotify, unnotified,
                 destroys, foreignDestroy, creatorGone>>

\* A lock word that every process keeps for itself, as a mutex without
\* PTHREAD_PROCESS_SHARED in a private mapping would be
LockFreePrivate(p) == pc[p] # "holding"

\* A lock word that lets its owner in again, as a mutex of type
\* PTHREAD_MUTEX_RECURSIVE would
LockFreeRecursive(p) == ~locked \/ pc[p] = "relocking"

\* What pthread_mutex_lock called by p finds: the lock word lies in the
\* MAP_SHARED region and the mutex is PTHREAD_PROCESS_SHARED, so p reads the
\* one word every process writes
LockFree(p) == ~locked

\* SharedMutex::lock, the return: pthread_mutex_lock takes the free lock and
\* lock() returns Ok(())
LockReturn(p) ==
  /\ Defined
  /\ pc[p] \in {"locking", "relocking"}
  /\ LockFree(p)
  /\ locked' = TRUE
  /\ pc' = [pc EXCEPT ![p] = "holding"]
  /\ UNCHANGED <<handle, ostate, waitq, mem, seen, ub, sinceNotify, unnotified,
                 destroys, foreignDestroy, creatorGone>>

\* An unlock() that returns without releasing the lock word
UnlockKeep(p) ==
  /\ Defined
  /\ pc[p] = "holding"
  /\ Live(p, "mutex")
  /\ pc' = [pc EXCEPT ![p] = "idle"]
  /\ UNCHANGED <<handle, ostate, locked, waitq, mem, seen, ub, sinceNotify, unnotified,
                 destroys, foreignDestroy, creatorGone>>

\* SharedMutex::unlock by a process that holds the lock
Unlock(p) ==
  /\ Defined
  /\ pc[p] = "holding"
  /\ Live(p, "mutex")
  /\ locked' = FALSE
  /\ pc' = [pc EXCEPT ![p] = "idle"]
  /\ ub' = (ub \/ ostate["mutex"] # "init")
  /\ UNCHANGED <<handle, ostate, waitq, mem, seen, sinceNotify, unnotified,
                 destroys, foreignDestroy, creatorGone>>

(***************************************************************************)
(* SharedCondvar                                                           *)
(***************************************************************************)

\* A wait() that blocks on the condition variable with the mutex still held
WaitCallKeepsLock(p) ==
  /\ Defined
  /\ pc[p] = "holding"
  /\ Live(p, "condvar")
  /\ Live(p, "mutex")
  /\ waitq' = Append(waitq, p)
  /\ pc' = [pc EXCEPT ![p] = "waiting"]
  /\ UNCHANGED <<handle, ostate, locked, mem, seen, ub, sinceNotify, unnotified,
                 destroys, foreignDestroy, creatorGone>>

\* SharedCondvar::wait, the call: pthread_cond_wait releases the mutex and
\* blocks the caller on the condition variable in one atomic step
WaitCall(p) ==
  /\ Defined
  /\ pc[p] = "holding"
  /\ Live(p, "condvar")
  /\ Live(p, "mutex")
  /\ locked' = FALSE
  /\ waitq' = Append(waitq, p)
  /\ pc' = [pc EXCEPT ![p] = "waiting"]
  /\ ub' = (ub \/ ostate["mutex"] # "init" \/ ostate["condvar"] # "init")
  /\ UNCHANGED <<handle, ostate, mem, seen, sinceNotify, unnotified,
                 destroys, foreignDestroy, creatorGone>>

\* The waiters pthread_cond_signal may pick: the scheduling policy decides
SignalChoices == 1..Len(waitq)

\* A notify_one() that hands the mutex over to the waiter it resumes
NotifyOneHandsOver(p) ==
  /\ Defined
  /\ pc[p] \in {"idle", "holding"}
  /\ Live(p, "condvar")
  /\ ub' = (ub \/ ostate["condvar"] # "init")
  /\ IF waitq = <<>>
     THEN UNCHANGED <<pc, waitq, sinceNotify, locked>>
     ELSE \E i \in SignalChoices :
            /\ pc' = [pc EXCEPT ![waitq[i]] = "holding"]
            /\ locked' = TRUE
            /\ waitq' = RemoveAt(waitq, i)
            /\ sinceNotify' = Range(waitq) \ {waitq[i]}
  /\ UNCHANGED <<handle, ostate, mem, seen, unnotified,
                 destroys, foreignDestroy, creatorGone>>

\* SharedCondvar::notify_one: pthread_cond_signal unblocks one waiter if
\* there is one; the caller need not hold any mutex
NotifyOne(p) ==
  /\ Defined
  /\ pc[p] \in {"idle", "holding"}
  /\ Live(p, "condvar")
  /\ ub' = (ub \/ ostate["condvar"] # "init")
  /\ IF waitq = <<>>
     THEN UNCHANGED <<pc, waitq, sinceNotify>>
     ELSE \E i \in SignalChoices :
            /\ pc' = [pc EXCEPT ![waitq[i]] = "reacquiring"]
            /\ waitq' = RemoveAt(waitq, i)
            /\ sinceNotify' = Range(waitq) \ {waitq[i]}
  /\ UNCHANGED <<handle, ostate, locked, mem, seen, unnotified,
                 destroys, foreignDestroy, creatorGone>>

\* A notify_all() that calls pthread_cond_signal
BroadcastOne == IF waitq = <<>> THEN {} ELSE {waitq[1]}

\* The waiters pthread_cond_broadcast unblocks
BroadcastSet == Range(waitq)

\* SharedCondvar::notify_all: pthread_cond_broadcast unblocks every waiter
NotifyAll(p) ==
  /\ Defined
  /\ pc[p] \in {"idle", "holding"}
  /\ Live(p, "condvar")
  /\ ub' = (ub \/ ostate["condvar"] # "init")
  /\ pc' = [q \in Procs |-> IF q \in BroadcastSet THEN "reacquiring" ELSE pc[q]]
  /\ waitq' = SelectSeq(waitq, LAMBDA q : q \notin BroadcastSet)
  /\ sinceNotify' = Range(waitq) \ BroadcastSet
  /\ UNCHANGED <<handle, ostate, locked, mem, seen, unnotified,
                 destroys, foreignDestroy, creatorGone>>

\* pthread_cond_wait may end without any signal or broadcast (a spurious
\* wakeup); wait() has no predicate to re-check and goes on to return
SpuriousWakeup(q) ==
  /\ Defined
  /\ pc[q] = "waiting"
  /\ \E i \in 1..Len(waitq) :
       /\ waitq[i] = q
       /\ waitq' = RemoveAt(waitq, i)
  /\ pc' = [pc EXCEPT ![q] = "reacquiring"]
  /\ sinceNotify' = sinceNotify \ {q}
  /\ unnotified' = IF q \in sinceNotify THEN unnotified ELSE unnotified \cup {q}
  /\ UNCHANGED <<handle, ostate, locked, mem, seen, ub,
                 destroys, foreignDestroy, creatorGone>>

\* SharedCondvar::wait, the return: pthread_cond_wait has the mutex again
WaitReturn(p) ==
  /\ Defined
  /\ pc[p] = "reacquiring"
  /\ LockFree(p)
  /\ locked' = TRUE
  /\ pc' = [pc EXCEPT ![p] = "holding"]
  /\ unnotified' = unnotified \ {p}
  /\ UNCHANGED <<handle, ostate, waitq, mem, seen, ub, sinceNotify,
                 destroys, foreignDestroy, creatorGone>>

(***************************************************************************)
(* Scope end of a handle                                                   *)
(***************************************************************************)

\* impl Drop for SharedMutex / SharedCondvar: the test that gates the destroy
OwnerGate(p, o) == getpid(p) = handle[p][o].owner_pid

\* impl Drop for SharedMutex / SharedCondvar, then the drop of the field
\* SharedMemoryObject: pthread_*_destroy if the gate passes, then munmap
DropSync(p, o) ==
  /\ Defined
  /\ pc[p] = "idle"
  /\ o \in SyncObjs
  /\ Live(p, o)
  /\ IF OwnerGate(p, o)
     THEN /\ ostate' = [ostate EXCEPT ![o] = "destroyed"]
          /\ destroys' = [destroys EXCEPT ![o] = @ + 1]
          /\ ub' = (ub \/ InUse(o) \/ ostate[o] # "init")
          /\ foreignDestroy' = IF IsCreator(p) THEN foreignDestroy
                               ELSE foreignDestroy \cup {o}
     ELSE UNCHANGED <<ostate, destroys, ub, foreignDestroy>>
  /\ handle' = [handle EXCEPT ![p][o] = NoHandle]
  /\ UNCHANGED <<pc, locked, waitq, mem, seen, sinceNotify, unnotified, creatorGone>>

(***************************************************************************)
(* SharedMemoryObject                                                      *)
(***************************************************************************)

\* A release that removes the region for every process
UnmappedForAll(h, p) == [q \in Procs |-> [h[q] EXCEPT !["data"] = NoHandle]]

\* free_shared_memory: munmap removes the caller's view and nothing else
Unmapped(h, p) == [h EXCEPT ![p]["data"] = NoHandle]

\* impl Drop for SharedMemoryObject
DropData(p) ==
  /\ Defined
  /\ pc[p] = "idle"
  /\ Live(p, "data")
  /\ handle' = Unmapped(handle, p)
  /\ UNCHANGED <<pc, ostate, locked, waitq, mem, seen, ub, sinceNotify, unnotified,
                 destroys, foreignDestroy, creatorGone>>

\* SharedMemoryObject::get: a read through the caller's view
Get(p) ==
  /\ Defined
  /\ pc[p] \in {"idle", "holding"}
  /\ Live(p, "data")
  /\ seen' = [seen EXCEPT ![p] = mem]
  /\ UNCHANGED <<pc, handle, ostate, locked, waitq, mem, ub, sinceNotify, unnotified,
                 destroys, foreignDestroy, creatorGone>>

\* SharedMemoryObject::get_mut followed by an assignment through it
\* A store that lands in a copy of the region private to the process
SetPrivate(p, v) ==
  /\ Defined
  /\ pc[p] \in {"idle", "holding"}
  /\ Live(p, "data")
  /\ UNCHANGED <<pc, handle, ostate, locked, waitq, mem, seen, ub, sinceNotify,
                 unnotified, destroys, foreignDestroy, creatorGone>>

Set(p, v) ==
  /\ Defined
  /\ pc[p] \in {"idle", "holding"}
  /\ Live(p, "data")
  /\ mem' = v
  /\ UNCHANGED <<pc, handle, ostate, locked, waitq, seen, ub, sinceNotify, unnotified,
                 destroys, foreignDestroy, creatorGone>>

(***************************************************************************)
(* Processes                                                               *)
(***************************************************************************)

\* fork(): the child is a copy of the caller (its handles and their fields)
\* under a pid that no live or unreaped process has; the child holds no lock
Fork(p, q) ==
  /\ Defined
  /\ pc[p] \in {"idle", "holding"}
  /\ pc[q] = "free"
  /\ pc' = [pc EXCEPT ![q] = "idle"]
  /\ handle' = [handle EXCEPT ![q] = handle[p]]
  /\ seen' = [seen EXCEPT ![q] = seen[p]]
  /\ UNCHANGED <<ostate, locked, waitq, mem, ub, sinceNotify, unnotified,
                 destroys, foreignDestroy, creatorGone>>

\* std::process::exit, or the end of main once the handles have been
\* dropped: no destructor runs, the kernel removes the address space and,
\* the process once reaped by its parent, its pid is free for a later fork
Exit(p) ==
  /\ Defined
  /\ pc[p] = "idle"
  /\ pc' = [pc EXCEPT ![p] = "free"]
  /\ handle' = [handle EXCEPT ![p] = [o \in Objs |-> NoHandle]]
  /\ seen' = [seen EXCEPT ![p] = 0]
  /\ creatorGone' = (creatorGone \/ p = 1)
  /\ UNCHANGED <<ostate, locked, waitq, mem, ub, sinceNotify, unnotified,
                 destroys, foreignDestroy>>

(***************************************************************************)
(* The mutex and the condition variable, used freely by every process      *)
(***************************************************************************)

\* Process 1 has returned from SharedMutex::new() and SharedCondvar::new()
NewSync == [o \in Objs |-> IF o \in SyncObjs THEN [st |-> "live", owner_pid |-> getpid(1)]
                           ELSE NoHandle]

InitCommon ==
  /\ ostate = [o \in SyncObjs |-> "init"]
  /\ locked = FALSE
  /\ waitq = <<>>
  /\ seen = [p \in Procs |-> 0]
  /\ ub = FALSE
  /\ sinceNotify = {}
  /\ unnotified = {}
  /\ destroys = [o \in SyncObjs |-> 0]
  /\ foreignDestroy = {}
  /\ creatorGone = FALSE
  /\ oscalls = [p \in Procs |-> <<>>]
  /\ last = [p \in Procs |-> NoCall]

Init ==
  /\ InitCommon
  /\ pc = [p \in Procs |-> IF p = 1 THEN "idle" ELSE "free"]
  /\ scenario = "free"
  /\ script = [p \in Procs |-> <<>>]
  /\ handle = [p \in Procs |-> IF p = 1 THEN NewSync ELSE [o \in Objs |-> NoHandle]]
  /\ mem = 0
  /\ wrote = [val |-> mem, readers |-> {}]

\* What the OS returned to the library is not followed
OsUnseen == UNCHANGED <<oscalls, last>>

\* No program is being followed
NoProgram == UNCHANGED <<scenario, script>>

\* No program is being followed and the data region is not touched
Free == NoProgram /\ OsUnseen /\ UNCHANGED wrote

Next ==
  \E p \in Procs :
    \/ LockCall(p) /\ Free
    \/ LockReturn(p) /\ Free
    \/ Relock(p) /\ Free
    \/ Unlock(p) /\ Free
    \/ WaitCall(p) /\ Free
    \/ NotifyOne(p) /\ Free
    \/ NotifyAll(p) /\ Free
    \/ SpuriousWakeup(p) /\ Free
    \/ WaitReturn(p) /\ Free
    \/ \E o \in SyncObjs : DropSync(p, o) /\ Free
    \/ \E q \in Procs : Fork(p, q) /\ Free
    \/ Exit(p) /\ Free

Spec == Init /\ [][Next]_vars

(***************************************************************************)
(* The programs of the tests and of the documentation, after their forks.  *)
(* Process 1 is the parent (the creator), 2 and 3 are its children.  The   *)
(* sleeps of the programs are not modelled: every interleaving is taken.   *)
(***************************************************************************)

\* tests/mutex.rs: parent and child each lock and unlock once
MutexTest ==
  [p \in Procs |->
     IF p = 1 THEN <<"lock", "unlock", "drop_mutex", "exit">>
     ELSE IF p = 2 THEN <<"lock", "unlock", "exit">>
     ELSE <<>>]

\* src/condvar.rs, the documented example: the child waits, the parent
\* notifies once and leaves main
CondvarDoc ==
  [p \in Procs |->
     IF p = 1 THEN <<"notify_one", "drop_condvar", "drop_mutex", "exit">>
     ELSE IF p = 2 THEN <<"lock", "wait", "unlock", "drop_condvar", "drop_mutex", "exit">>
     ELSE <<>>]

\* tests/condvar.rs, child0 and child1 in either phase
Waiter == <<"lock", "wait", "unlock", "exit">>

\* tests/condvar.rs, first phase: both children wait, the parent broadcasts
Broadcast ==
  [p \in Procs |-> IF p = 1 THEN <<"notify_all">> ELSE IF p \in {2, 3} THEN Waiter ELSE <<>>]

\* tests/condvar.rs, second phase: both children wait, the parent signals twice
Signal ==
  [p \in Procs |->
     IF p = 1 THEN <<"notify_one", "notify_one">> ELSE IF p \in {2, 3} THEN Waiter ELSE <<>>]

Program(s) ==
  CASE s = "mutex_test" -> MutexTest
    [] s = "condvar_doc" -> CondvarDoc
    [] s = "broadcast" -> Broadcast
    [] s = "signal" -> Signal

Scenarios == {"mutex_test", "condvar_doc", "broadcast", "signal"}

\* The state after the forks of the program: every process with a program
\* has the handles the parent created
InitScript ==
  /\ InitCommon
  /\ scenario \in Scenarios
  /\ script = Program(scenario)
  /\ pc = [p \in Procs |-> IF script[p] # <<>> THEN "idle" ELSE "free"]
  /\ handle = [p \in Procs |-> IF script[p] # <<>> THEN NewSync ELSE [o \in Objs |-> NoHandle]]
  /\ mem = 0
  /\ wrote = [val |-> mem, readers |-> {}]

\* p's program makes the call op next
Does(p, op) ==
  /\ script[p] # <<>>
  /\ Head(script[p]) = op
  /\ script' = [script EXCEPT ![p] = Tail(@)]
  /\ UNCHANGED <<scenario, wrote>>
  /\ OsUnseen

\* A step of the pthread library inside a call p has already made
Inside == NoProgram /\ OsUnseen /\ UNCHANGED wrote

\* The steps of process p
ProcStep(p) ==
  \/ Does(p, "lock") /\ LockCall(p)
  \/ LockReturn(p) /\ Inside
  \/ Does(p, "unlock") /\ Unlock(p)
  \/ Does(p, "wait") /\ WaitCall(p)
  \/ WaitReturn(p) /\ Inside
  \/ Does(p, "notify_one") /\ NotifyOne(p)
  \/ Does(p, "notify_all") /\ NotifyAll(p)
  \/ Does(p, "drop_condvar") /\ DropSync(p, "condvar")
  \/ Does(p, "drop_mutex") /\ DropSync(p, "mutex")
  \/ Does(p, "exit") /\ Exit(p)

ScriptNext ==
  \E p \in Procs :
    \/ ProcStep(p)
    \/ SpuriousWakeup(p) /\ Inside

\* Every process that can run is scheduled in the end.  Nothing forces a
\* spurious wakeup to happen.
FairScript == InitScript /\ [][ScriptNext]_vars /\ \A p \in Procs : WF_vars(ProcStep(p))

(***************************************************************************)
(* A SharedMemoryObject holding a plain value                              *)
(***************************************************************************)

\* Process 1 has returned from SharedMemoryObject::new(v)
InitShm ==
  /\ InitCommon
  /\ scenario = "free"
  /\ script = [p \in Procs |-> <<>>]
  /\ pc = [p \in Procs |-> IF p = 1 THEN "idle" ELSE "free"]
  /\ handle = [p \in Procs |->
                 [o \in Objs |-> IF p = 1 /\ o = "data"
                                 THEN [st |-> "live", owner_pid |-> 0] ELSE NoHandle]]
  /\ mem \in Values
  /\ wrote = [val |-> mem, readers |-> {}]

\* History of the data region: p has read the region
Read(p) == wrote' = [wrote EXCEPT !.readers = @ \cup {p}]

\* History of the data region: v has been stored, nobody has read it yet
Written(v) == wrote' = [val |-> v, readers |-> {}]

\* History of the data region: what p read is gone with p
Forgotten(p) == wrote' = [wrote EXCEPT !.readers = @ \ {p}]

Shm == NoProgram /\ OsUnseen

NextShm ==
  \E p \in Procs :
    \/ Get(p) /\ Read(p) /\ Shm
    \/ \E v \in Values : Set(p, v) /\ Written(v) /\ Shm
    \/ DropData(p) /\ Forgotten(p) /\ Shm
    \/ \E q \in Procs : Fork(p, q) /\ Free
    \/ Exit(p) /\ Forgotten(p) /\ Shm

SpecShm == InitShm /\ [][NextShm]_vars

(***************************************************************************)
(* What the library does with what the OS returns: creation, failed calls  *)
(* and release.  A pthread function returns 0 or a positive error number,  *)
(* munmap returns 0 or -1, mmap returns an address or MAP_FAILED.          *)
(***************************************************************************)

MAP_FAILED == -1

PthreadRets == {0, 22}
MunmapRets == {0, -1}
MmapRets == {MAP_FAILED, 1}

\* What the OS returns to each of the calls new() can make
NewRets == [mmap : MmapRets, attr_init : PthreadRets, setpshared : PthreadRets,
            init : PthreadRets, attr_destroy : PthreadRets, munmap : MunmapRets]

\* What the OS returns to each of the calls a scope exit can make
DropRets == [destroy : PthreadRets, munmap : MunmapRets]

\* src/util.rs check_libc_err, asked whether it lets the value through
check_libc_err(ret) == ~(ret < 0)

\* src/shared_memory.rs allocate_shared_memory and free_shared_memory
MappedAlways(addr) == TRUE
Mapped(addr) == addr # MAP_FAILED
Freed(ret) == ~(ret # 0)

OsCall(name, ret) == [call |-> name, ret |-> ret]

Calls(p) == {oscalls[p][i].call : i \in 1..Len(oscalls[p])}

\* The process has not been terminated by a panic
Running(p) == last[p].res # "panic"

\* The local SharedMemoryObject goes out of scope when new() fails or panics
Unwound(calls, res, r) ==
  [calls |-> Append(calls, OsCall("munmap", r.munmap)),
   res |-> IF Freed(r.munmap) THEN res ELSE "panic",
   made |-> FALSE, structure |-> "none"]

\* SharedMutex::new and SharedCondvar::new with initialize_mutex and
\* initialize_condvar: the OS calls made, how the call ends, whether a
\* handle is returned and what the structure in the region then is
NewSyncObject(r) ==
  LET c1 == <<OsCall("mmap", r.mmap)>>
      c2 == Append(c1, OsCall("attr_init", r.attr_init))
      c3 == Append(c2, OsCall("setpshared", r.setpshared))
      c4 == Append(c3, OsCall("init", r.init))
      c5 == Append(c4, OsCall("attr_destroy", r.attr_destroy))
  IN  IF ~Mapped(r.mmap)
        THEN [calls |-> c1, res |-> "Err", made |-> FALSE, structure |-> "none"]
      ELSE IF ~check_libc_err(r.attr_init) THEN Unwound(c2, "Err", r)
      ELSE IF ~check_libc_err(r.setpshared) THEN Unwound(c3, "panic", r)
      ELSE IF ~check_libc_err(r.attr_destroy) THEN Unwound(c5, "panic", r)
      ELSE IF ~check_libc_err(r.init) THEN Unwound(c5, "Err", r)
      ELSE [calls |-> c5, res |-> "Ok", made |-> TRUE,
            structure |-> IF r.attr_init = 0 /\ r.setpshared = 0 /\ r.init = 0
                          THEN "init" ELSE "uninit"]

\* SharedMemoryObject::new(v)
NewDataObject(r) ==
  IF ~Mapped(r.mmap)
    THEN [calls |-> <<OsCall("mmap", r.mmap)>>, res |-> "Err", made |-> FALSE]
    ELSE [calls |-> <<OsCall("mmap", r.mmap)>>, res |-> "Ok", made |-> TRUE]

\* The program's first library call: process p creates object o, holding v
\* if it is a data region
New(p, o, v, r) ==
  /\ Defined
  /\ pc[p] = "idle"
  /\ IsCreator(p)
  /\ last[p] = NoCall
  /\ LET n == IF o \in SyncObjs THEN NewSyncObject(r) ELSE NewDataObject(r)
     IN  /\ oscalls' = [oscalls EXCEPT ![p] = n.calls]
         /\ last' = [last EXCEPT ![p] = [op |-> "new", obj |-> o,
                                              arg |-> IF o = "data" THEN v ELSE 0,
                                              res |-> n.res]]
         /\ handle' = IF n.made
                        THEN [handle EXCEPT ![p][o] =
                                [st |-> "live",
                                 owner_pid |-> IF o \in SyncObjs THEN getpid(p) ELSE 0]]
                        ELSE handle
         /\ ostate' = IF n.made /\ o \in SyncObjs
                        THEN [ostate EXCEPT ![o] = n.structure] ELSE ostate
         /\ mem' = IF n.made /\ o = "data" THEN v ELSE mem
         /\ wrote' = IF n.made /\ o = "data" THEN [val |-> v, readers |-> {}] ELSE wrote
  /\ UNCHANGED <<pc, locked, waitq, seen, ub, sinceNotify, unnotified, destroys,
                 foreignDestroy, creatorGone>>

Ops == {"lock", "unlock", "wait", "notify_one", "notify_all"}

ObjOf(op) == IF op \in {"lock", "unlock"} THEN "mutex" ELSE "condvar"

\* lock, unlock, wait, notify_one or notify_all when the OS call it makes
\* gives back the error number e: the structure is as it was
Rejected(p, op, e) ==
  /\ Defined
  /\ pc[p] = "idle"
  /\ Live(p, ObjOf(op))
  /\ e # 0
  /\ oscalls' = [oscalls EXCEPT ![p] = <<OsCall(op, e)>>]
  /\ last' = [last EXCEPT ![p] = [op |-> op, obj |-> ObjOf(op), arg |-> 0,
                                   res |-> IF check_libc_err(e) THEN "Ok" ELSE "Err"]]
  /\ UNCHANGED <<pc, handle, ostate, locked, waitq, mem, seen, ub, sinceNotify,
                 unnotified, destroys, foreignDestroy, creatorGone, wrote>>

\* A scope exit that releases the region before the structure in it
DropUnmapsFirst(gate, r) ==
  LET d == IF gate THEN <<OsCall("destroy", r.destroy)>> ELSE <<>>
  IN  [calls |-> <<OsCall("munmap", r.munmap)>> \o d,
       res |-> IF (gate /\ ~check_libc_err(r.destroy)) \/ ~Freed(r.munmap)
               THEN "panic" ELSE "Ok"]

\* What Drop for SharedMutex / SharedCondvar and then Drop for its
\* SharedMemoryObject field call and how the scope exit ends
DropSyncCalls(gate, r) ==
  LET d == IF gate THEN <<OsCall("destroy", r.destroy)>> ELSE <<>>
  IN  [calls |-> Append(d, OsCall("munmap", r.munmap)),
       res |-> IF (gate /\ ~check_libc_err(r.destroy)) \/ ~Freed(r.munmap)
               THEN "panic" ELSE "Ok"]

\* The handle of p to o goes out of scope, the OS answering as in r
DropOs(p, o, r) ==
  /\ IF o \in SyncObjs THEN DropSync(p, o) ELSE DropData(p)
  /\ LET d == DropSyncCalls(o \in SyncObjs /\ OwnerGate(p, o), r)
     IN  /\ oscalls' = [oscalls EXCEPT ![p] = d.calls]
         /\ last' = [last EXCEPT ![p] = [op |-> "drop", obj |-> o, arg |-> 0, res |-> d.res]]
  /\ wrote' = [wrote EXCEPT !.readers = @ \ {p}]

\* Nothing has been created yet
InitOs ==
  /\ ostate = [o \in SyncObjs |-> "none"]
  /\ locked = FALSE
  /\ waitq = <<>>
  /\ seen = [p \in Procs |-> 0]
  /\ ub = FALSE
  /\ sinceNotify = {}
  /\ unnotified = {}
  /\ destroys = [o \in SyncObjs |-> 0]
  /\ foreignDestroy = {}
  /\ creatorGone = FALSE
  /\ oscalls = [p \in Procs |-> <<>>]
  /\ last = [p \in Procs |-> NoCall]
  /\ scenario = "free"
  /\ script = [p \in Procs |-> <<>>]
  /\ pc = [p \in Procs |-> IF p = 1 THEN "idle" ELSE "free"]
  /\ handle = [p \in Procs |-> [o \in Objs |-> NoHandle]]
  /\ mem = 0
  /\ wrote = [val |-> mem, readers |-> {}]

NextOs ==
  \E p \in Procs :
    \/ IsCreator(p) /\ last[p] = NoCall /\ \E o \in Objs : \E v \in Values : \E r \in NewRets : New(p, o, v, r) /\ NoProgram
    \/ Running(p) /\ Get(p) /\ Read(p) /\ Shm
    \/ \E o \in Objs : \E r \in DropRets : Running(p) /\ DropOs(p, o, r) /\ NoProgram
    \/ \E q \in Procs : Running(p) /\ Fork(p, q) /\ Free

SpecOs == InitOs /\ [][NextOs]_vars

\* The mutex and the condition variable exist; calls on them are rejected
NextRejected ==
  \E p \in Procs :
    \/ \E op \in Ops : \E e \in PthreadRets : Rejected(p, op, e) /\ NoProgram
    \/ \E q \in Procs : Fork(p, q) /\ Free

SpecRejected == Init /\ [][NextRejected]_vars

(***************************************************************************)
(* Properties                                                              *)
(***************************************************************************)

\* C1: mutual exclusion.  While the mutex is used as documented, at most one
\* of the processes that share it is between a returned lock() (or wait())
\* and its unlock(), however many contend.
MutualExclusion == Defined => Cardinality(Holders) <= 1

\* A holder with two other processes blocked in lock()
ContendedLock ==
  /\ Defined
  /\ Cardinality(Holders) = 1
  /\ Cardinality({p \in Procs : pc[p] = "locking"}) >= 2

\* C2: a lock() called while another process holds the mutex returns only
\* once no other process holds it (the holder has unlocked), and it does
\* return: a process blocked in lock() behind a holder gets the lock in the
\* end, unless the creator destroys the mutex under it; in tests/mutex.rs
\* the parent, blocked behind the child, always gets it.
LockWaitsForUnlock ==
  /\ [][\A p \in Procs :
          (pc[p] = "locking" /\ pc'[p] = "holding")
            => \A q \in Procs \ {p} : pc[q] # "holding" /\ pc'[q] # "holding"]_vars
  /\ \A p \in Procs : \A q \in Procs \ {p} :
       (pc[q] = "holding" /\ pc[p] = "locking") ~> (pc[p] = "holding" \/ ub)
  /\ (scenario = "mutex_test" /\ pc[2] = "holding" /\ pc[1] = "locking")
       ~> (pc[1] = "holding" /\ script[2] \in {<<"exit">>, <<>>})

\* tests/mutex.rs: the parent has called lock() while the child holds the mutex
ParentBlockedBehindChild ==
  /\ scenario = "mutex_test"
  /\ pc[2] = "holding"
  /\ pc[1] = "locking"

\* C3: wait() returns only if notify_one() or notify_all() was called on the
\* condvar after the caller began to wait.
WaitReturnsOnlyAfterNotify ==
  [][\A p \in Procs : (pc[p] = "reacquiring" /\ pc'[p] = "holding") => p \notin unnotified]_vars

\* C4: wait() releases the mutex in the step in which the caller joins the
\* waiters, so that the lock word is set exactly while some process holds the
\* mutex, a waiter is blocked exactly while it is queued on the condvar, and
\* the processes that have returned from wait() or lock() exclude each other;
\* a notify passes over a waiter only by waking another one.
WaitReleasesAndReacquires ==
  /\ [](Defined =>
          /\ locked <=> Holders # {}
          /\ Cardinality(Holders) <= 1
          /\ \A p \in Procs : pc[p] = "waiting" <=> InSeq(waitq, p))
  /\ [][\A p \in sinceNotify' \ sinceNotify :
          \E q \in Procs \ {p} : pc[q] = "waiting" /\ pc'[q] = "reacquiring"]_vars

\* Two processes wait on the condvar while a third holds the mutex
TwoWaitersOneHolder ==
  /\ Defined
  /\ Len(waitq) = 2
  /\ Cardinality(Holders) = 1

\* C5: a notify_one() resumes exactly one waiter and the others stay
\* blocked until the next notify: in the second phase of tests/condvar.rs,
\* with both children waiting, a child leaves the wait only in a step in
\* which the parent calls notify_one(), and the other child goes on waiting;
\* the child passed over by that notify_one() leaves the wait only in a
\* step in which the parent notifies again.
NotifyOneWakesOne ==
  [][scenario = "signal" =>
       /\ (pc[2] = "waiting" /\ pc[3] = "waiting"
             /\ (pc'[2] # "waiting" \/ pc'[3] # "waiting"))
            => /\ script'[1] # script[1]
               /\ pc'[2] = "waiting" \/ pc'[3] = "waiting"
       /\ \A q \in sinceNotify : pc'[q] # "waiting" => script'[1] # script[1]]_vars

\* C6: notify_all() resumes every waiter: in the first phase of
\* tests/condvar.rs the broadcast leaves no process waiting and, called with
\* both children waiting, it lets both reacquire the mutex, never together,
\* and unlock.
NotifyAllWakesAll ==
  /\ [][(scenario = "broadcast" /\ script'[1] # script[1])
          => \A q \in Procs : pc'[q] # "waiting"]_vars
  /\ [](scenario = "broadcast" => Cardinality(Holders) <= 1)
  /\ (scenario = "broadcast" /\ script[1] = <<"notify_all">>
        /\ pc[2] = "waiting" /\ pc[3] = "waiting")
       ~> (\A q \in {2, 3} : script[q] \in {<<"exit">>, <<>>})

\* The broadcast has resumed both children, neither of them spuriously
BroadcastResumedBoth ==
  /\ scenario = "broadcast"
  /\ script[1] = <<>>
  /\ pc[2] = "reacquiring"
  /\ pc[3] = "reacquiring"
  /\ unnotified = {}

\* The child of the documented example has returned from wait()
ChildResumed == Len(script[2]) <= 4 /\ pc[2] \notin {"waiting", "reacquiring"}

\* C7: in the documented example of src/condvar.rs the child resumes from
\* wait() only after the parent's notify_one(), and once the parent notifies
\* the waiting child, the child unlocks and terminates.
DocExampleOrder ==
  /\ []((scenario = "condvar_doc" /\ ChildResumed) => Len(script[1]) <= 3)
  /\ (scenario = "condvar_doc" /\ Len(script[1]) = 4 /\ pc[2] = "waiting")
       ~> (script[2] = <<>>)

\* C8: the scope end of a handle in a process other than the creator never
\* invokes pthread_mutex_destroy or pthread_cond_destroy.
OnlyCreatorDestroys == foreignDestroy = {}

\* C9: the OS-level destroy of the mutex, and of the condvar, is invoked at
\* most once over all processes, forks and scope ends.
DestroyedAtMostOnce == \A o \in SyncObjs : destroys[o] <= 1

\* C10: a step in which a process gives up its view of the data region (the
\* drop of its handle, or its exit) leaves the stored value and the handle
\* of every other process as they were, and takes the handle away from the
\* releasing process, so that it is released once; every read made through
\* a handle returns the stored value.
ReleaseIsLocal ==
  [][/\ \A p \in Procs :
          (Live(p, "data") /\ handle'[p]["data"].st # "live")
            => /\ mem' = mem
               /\ handle'[p]["data"] = NoHandle
               /\ \A q \in Procs \ {p} : handle'[q] = handle[q] /\ seen'[q] = seen[q]
     /\ \A q \in Procs :
          (seen'[q] # seen[q] /\ Live(q, "data") /\ handle'[q] = handle[q])
            => seen'[q] = mem]_vars

\* The creator has dropped its handle and goes on; a child still reads the
\* stored value
CreatorReleasedChildReads ==
  /\ pc[1] = "idle"
  /\ ~creatorGone
  /\ ~Live(1, "data")
  /\ \E q \in Procs \ {1} : Live(q, "data") /\ mem = MaxVal /\ seen[q] = MaxVal

\* C11: every handle on the region, in whatever process, denotes the one
\* stored value: a process that has read through get() since the last store
\* through get_mut(), made by any process, holds the value of that store
\* (the initial value if there was none), and the region holds it too
SingleStoredValue ==
  /\ mem = wrote.val
  /\ \A q \in wrote.readers : Live(q, "data") /\ seen[q] = wrote.val

\* A process other than a writer's has read what that one stored after the
\* fork, while a third process still holds what it read before the store
ReadAfterForeignWrite ==
  /\ wrote.val = 0
  /\ \E r \in Procs \ wrote.readers : Live(r, "data") /\ seen[r] = MaxVal
  /\ Cardinality(wrote.readers) >= 2
\* C12: for every value V, once SharedMemoryObject::new(V) has returned a
\* handle every get() made before any store returns V; new(V) returns an
\* error exactly when the OS refuses the mapping, and then no handle exists
\* in any process and no unmap is ever attempted
NewHoldsValue ==
  (last[1].op = "new" /\ last[1].obj = "data") =>
    /\ last[1].res \in {"Ok", "Err"}
    /\ last[1].res = "Err" <=> oscalls[1][1].ret = MAP_FAILED
    /\ last[1].res = "Ok" =>
          /\ Live(1, "data")
          /\ mem = last[1].arg
          /\ \A q \in wrote.readers : seen[q] = last[1].arg
    /\ last[1].res = "Err" =>
          \A q \in Procs : ~Live(q, "data") /\ "munmap" \notin Calls(q)

\* The creator and a child have both read the value given to new()
NewThenGet ==
  /\ last[1].op = "new" /\ last[1].obj = "data" /\ last[1].arg = MaxVal
  /\ 1 \in wrote.readers /\ seen[1] = MaxVal
  /\ \E q \in wrote.readers \ {1} : seen[q] = MaxVal
\* C13: lock, unlock, wait, notify_one and notify_all return an error as
\* soon as the OS call they make reports one, and return success only when
\* that call succeeded
OsErrorIsReturned ==
  \A p \in Procs :
    last[p].op \in Ops => (last[p].res = "Ok" <=> oscalls[p][1].ret = 0)

\* C14: when the OS rejects the attribute initialisation, the setting of the
\* process-shared attribute or the initialisation of the structure, the
\* creation of a SharedMutex or SharedCondvar returns an error, without
\* terminating the process, and no handle is produced
RejectedCreateReturnsError ==
  (/\ last[1].op = "new"
   /\ last[1].obj \in SyncObjs
   /\ \E i \in 1..Len(oscalls[1]) :
        oscalls[1][i].call \in {"attr_init", "setpshared", "init"} /\ oscalls[1][i].ret # 0)
    => last[1].res = "Err" /\ ~Live(1, last[1].obj)

\* C15: when the OS rejects the destroy made by the creator's scope exit,
\* or the unmap made by any process's scope exit, the process terminates
\* abruptly: the failure is never ignored
RejectedReleaseAborts ==
  \A p \in Procs :
    (last[p].op = "drop" /\ \E i \in 1..Len(oscalls[p]) : oscalls[p][i].ret # 0)
      => last[p].res = "panic"
\* C16: the mutex is not re-entrant: a process that holds it and calls
\* lock() again stays inside that call, which neither returns nor reports
\* an error, the mutex stays locked, and every process that is acquiring
\* the mutex, in lock() or on its way out of wait(), stays blocked too
RelockDeadlocks ==
  [][\A p \in Procs : pc[p] = "relocking" =>
       /\ pc'[p] = "relocking"
       /\ locked'
       /\ \A q \in Procs : pc[q] \in {"locking", "reacquiring"} => pc'[q] = pc[q]]_vars

\* The holder is inside a second lock() while one process is in lock() and
\* another is leaving wait()
RelockWithContenders ==
  /\ Defined
  /\ \E p \in Procs : pc[p] = "relocking"
  /\ \E q \in Procs : pc[q] = "locking"
  /\ \E q \in Procs : pc[q] = "reacquiring"
\* C17: in the documented example, once the parent has called notify_one()
\* a child that is blocked in wait() began to wait after that call, which
\* found no waiter and changed nothing; the call is not remembered, and the
\* child stays blocked, no later notify being made
NotifyIsNotRemembered ==
  /\ [][(scenario = "condvar_doc" /\ script'[1] # script[1] /\ Len(script[1]) = 4
            /\ waitq = <<>>)
          => waitq' = waitq /\ sinceNotify' = sinceNotify /\ pc' = pc]_vars
  /\ [][(scenario = "condvar_doc" /\ Len(script[1]) <= 3 /\ pc[2] = "waiting")
          => pc'[2] = "waiting"]_vars

\* C18: with two processes blocked in wait(), a notify_one() resumes the
\* one that began to wait first and leaves the other waiting, so that two
\* calls wake the waiters in the order in which they began to wait
NotifyOneIsFifo ==
  [][(scenario = "signal" /\ script'[1] # script[1] /\ Len(waitq) = 2)
       => pc'[waitq[1]] = "reacquiring" /\ pc'[waitq[2]] = "waiting"]_vars

\* C19: in the documented example the creator destroys neither the condvar
\* nor the mutex while the child is blocked in wait(), is reacquiring the
\* mutex or holds it
DocTeardownAfterChild ==
  [][(scenario = "condvar_doc" /\ destroys' # destroys)
       => pc[2] \notin {"waiting", "reacquiring", "holding"}]_vars
\* C20: the scope exit of the creator's handle to a mutex or condvar makes
\* exactly one OS-level destroy and then exactly one unmap, so the destroy
\* is never made on a view already unmapped; the scope exit of any other
\* handle, to a data region or in another process, makes the unmap only and
\* runs no cleanup of what the region holds
DestroyThenUnmap ==
  \A p \in Procs :
    last[p].op = "drop" =>
      [i \in 1..Len(oscalls[p]) |-> oscalls[p][i].call]
        = IF last[p].obj \in SyncObjs /\ IsCreator(p)
          THEN <<"destroy", "munmap">> ELSE <<"munmap">>

\* The creator has let its handle to a mutex or condvar go out of scope,
\* and so has a child, both unmaps having succeeded
CreatorAndChildDropped ==
  /\ last[1].op = "drop" /\ last[1].obj \in SyncObjs /\ last[1].res = "Ok"
  /\ Len(oscalls[1]) = 2
  /\ \E q \in Procs \ {1} : last[q].op = "drop" /\ last[q].res = "Ok" /\ Len(oscalls[q]) = 1
ParentAtNotify == script[1] # <<>> /\ Head(script[1]) \in {"notify_one", "notify_all"}

\* C22: notify_one() and notify_all() neither need nor change the state of
\* the mutex: the parent of the tests and of the documented example calls
\* them without holding the mutex, whoever holds it or waits for it, the
\* call is made and returns in one step, and it leaves the lock word, the
\* holder and every process that is not blocked in wait() as they were
NotifyLeavesMutex ==
  /\ []((Defined /\ ParentAtNotify)
          => /\ 1 \notin Holders
             /\ ENABLED (Does(1, Head(script[1])) /\ (NotifyOne(1) \/ NotifyAll(1))))
  /\ [][(ParentAtNotify /\ script'[1] # script[1])
          => /\ locked' = locked
             /\ Holders' = Holders
             /\ \A q \in Procs : pc[q] # "waiting" => pc'[q] = pc[q]]_vars

\* The parent, which does not hold the mutex, has made its first
\* notify_one() while a child held the mutex: the child still holds it and
\* the waiter that was resumed has to reacquire it
NotifiedUnderHolder ==
  /\ scenario = "signal"
  /\ Len(script[1]) = 1
  /\ pc[1] = "idle"
  /\ locked
  /\ \E h \in Procs \ {1} : pc[h] = "holding" /\ Len(script[h]) = 3
  /\ \E q \in Procs : pc[q] = "reacquiring" /\ q \notin unnotified
====
